---- MODULE Spec2Model ----
(***************************************************************************)
(* typedash: the multi-key reorder engine (reorderArray) of                *)
(* src/utils/isNumber.ts, with its nested path resolver and its value      *)
(* comparator, run on the sort of the JavaScript engine, and the deep      *)
(* equality engine (isArrayEqual) of src/utils/array/isArrayEqual.ts.      *)
(*                                                                         *)
(* JavaScript values are tagged records of one shape, so that `=` on two   *)
(* of them is the strict equality `===` of the language: primitives are    *)
(* equal by payload, objects by reference.  Strings are sequences of       *)
(* UTF-16 code units.  Objects live in a heap, indexed by reference.       *)
(***************************************************************************)
EXTENDS Integers, Sequences, FiniteSets, TLC

VARIABLES array, configs, pc, result, result2, given, thrown,
          arr1, arr2, options, elements, answer

reorderVars == <<array, configs, result, result2, given, thrown>>

equalityVars == <<arr1, arr2, options, elements, answer>>

vars == <<reorderVars, equalityVars, pc>>

(***************************************************************************)
(* Values                                                                  *)
(***************************************************************************)
Str(s) == [kind |-> "string", num |-> 0, str |-> s, ref |-> 0]

Num(n) == [kind |-> "number", num |-> n, str |-> <<>>, ref |-> 0]

Bool(b) == [kind |-> "boolean", num |-> IF b THEN 1 ELSE 0, str |-> <<>>, ref |-> 0]

Null == [kind |-> "null", num |-> 0, str |-> <<>>, ref |-> 0]

Undefined == [kind |-> "undefined", num |-> 0, str |-> <<>>, ref |-> 0]

Obj(r) == [kind |-> "object", num |-> 0, str |-> <<>>, ref |-> r]

\* typeof: null is an object to typeof.
TypeOf(v) == IF v.kind = "null" THEN "object" ELSE v.kind

\* ToBoolean, as `current && ...` applies it.
Truthy(v) ==
  CASE v.kind = "string" -> v.str # <<>>
    [] v.kind = "number" -> v.num # 0
    [] v.kind = "boolean" -> v.num = 1
    [] v.kind = "object" -> TRUE
    [] OTHER -> FALSE

\* s < t on strings: by code units, a proper prefix first.
RECURSIVE StrLess(_, _)
StrLess(s, t) ==
  IF t = <<>> THEN FALSE
  ELSE IF s = <<>> THEN TRUE
  ELSE IF Head(s) # Head(t) THEN Head(s) < Head(t)
  ELSE StrLess(Tail(s), Tail(t))

\* Number::toString of an integer: decimal digits, '-' (45) before a negative.
RECURSIVE Digits(_)
Digits(n) ==
  IF n < 10 THEN <<48 + n>> ELSE Append(Digits(n \div 10), 48 + (n % 10))

NumToStr(n) == IF n < 0 THEN <<45>> \o Digits(-n) ELSE Digits(n)

(***************************************************************************)
(* The heap: the objects the caller holds.  An object is its own keys in   *)
(* insertion order with their values; an array's keys are its indices.     *)
(***************************************************************************)
Rec(keys, vals) == [isArray |-> FALSE, keys |-> keys, vals |-> vals]

Arr(vals) ==
  [isArray |-> TRUE, keys |-> [i \in 1..Len(vals) |-> NumToStr(i - 1)], vals |-> vals]

\* Property names and paths, as code units: "p", "q", "u", "n", "u.n".
KeyP == <<112>>

KeyQ == <<113>>

KeyU == <<117>>

KeyN == <<110>>

PathUN == <<117, 46, 110>>

\* Strings "a", "b".
SA == <<97>>

SB == <<98>>

\* "value", "id", "user", "lastLogin", "admin", "data", "c", "user.lastLogin".
KeyValue == <<118, 97, 108, 117, 101>>

KeyId == <<105, 100>>

KeyUser == <<117, 115, 101, 114>>

KeyLastLogin == <<108, 97, 115, 116, 76, 111, 103, 105, 110>>

KeyAdmin == <<97, 100, 109, 105, 110>>

KeyData == <<100, 97, 116, 97>>

KeyC == <<99>>

PathUserLastLogin == KeyUser \o <<46>> \o KeyLastLogin

\* "data.0.lastLogin"
PathData0LastLogin == KeyData \o <<46, 48, 46>> \o KeyLastLogin

\* Strings '0', '1', '01'.
S0 == <<48>>

S1 == <<49>>

S01 == <<48, 49>>

\* Arrays ['a'], ['a'] again, ['b'] and records {n:'b'}, {n:'a'}, {} of the heap.
RefA == Obj(15)

RefB == Obj(16)

RefC == Obj(17)

Heap ==
  << Rec(<<KeyP, KeyQ, KeyU>>, <<Str(SA), Num(2), Obj(12)>>),   \* 1 {p:'a', q:2, u:{n:'b'}}
     Rec(<<KeyP, KeyQ, KeyU>>, <<Str(SB), Num(1), Obj(13)>>),   \* 2 {p:'b', q:1, u:{n:'a'}}
     Rec(<<KeyP, KeyQ, KeyU>>, <<Num(1), Num(1), Obj(14)>>),    \* 3 {p:1, q:1, u:{}}
     Rec(<<KeyP, KeyQ, KeyU>>, <<Bool(TRUE), Num(2), Null>>),   \* 4 {p:true, q:2, u:null}
     Rec(<<KeyP, KeyQ>>, <<Null, Num(2)>>),                     \* 5 {p:null, q:2}
     Rec(<<KeyP, KeyQ>>, <<Undefined, Num(1)>>),                \* 6 {p:undefined, q:1}
     Rec(<<KeyP, KeyQ>>, <<Null, Num(1)>>),                     \* 7 {p:null, q:1}
     Rec(<<KeyP, KeyQ>>, <<RefA, Num(1)>>),                     \* 8 {p:A, q:1}
     Rec(<<KeyP, KeyQ>>, <<RefB, Num(1)>>),                     \* 9 {p:B, q:1}
     Rec(<<KeyP, KeyQ>>, <<RefA, Num(2)>>),                     \* 10 {p:A, q:2}, the array of 8
     Rec(<<KeyP, KeyQ>>, <<RefC, Num(2)>>),                     \* 11 {p:C, q:2}
     Rec(<<KeyN>>, <<Str(SB)>>),                                \* 12 {n:'b'}
     Rec(<<KeyN>>, <<Str(SA)>>),                                \* 13 {n:'a'}
     Rec(<<>>, <<>>),                                           \* 14 {}
     Arr(<<Str(SA)>>),                                          \* 15 A = ['a']
     Arr(<<Str(SA)>>),                                          \* 16 B = ['a']
     Arr(<<Str(SB)>>),                                          \* 17 C = ['b']
     Rec(<<KeyP, KeyQ, KeyU>>, <<Str(SB), Num(2), Obj(19)>>),   \* 18 {p:'b', q:2, u:{n:null}}
     Rec(<<KeyN>>, <<Null>>),                                   \* 19 {n:null}
     Rec(<<KeyValue>>, <<Num(0)>>),                             \* 20 {value:0}
     Rec(<<KeyValue>>, <<Num(1)>>),                             \* 21 {value:1}
     Rec(<<KeyValue>>, <<Str(<<>>)>>),                          \* 22 {value:''}
     Rec(<<KeyValue>>, <<Str(S0)>>),                            \* 23 {value:'0'}
     Rec(<<KeyValue>>, <<Str(S1)>>),                            \* 24 {value:'1'}
     Rec(<<KeyValue>>, <<Bool(TRUE)>>),                         \* 25 {value:true}
     Rec(<<KeyValue>>, <<Bool(FALSE)>>),                        \* 26 {value:false}
     Rec(<<KeyValue>>, <<Null>>),                               \* 27 {value:null}
     Rec(<<KeyValue>>, <<Undefined>>),                          \* 28 {value:undefined}
     Rec(<<KeyValue>>, <<Str(S01)>>),                           \* 29 {value:'01'}
     Rec(<<KeyData>>, <<Obj(33)>>),                             \* 30 {data:[1,'1']}
     Rec(<<KeyData>>, <<Obj(34)>>),                             \* 31 {data:['1','01']}
     Rec(<<KeyData>>, <<Obj(35)>>),                             \* 32 {data:['1',1]}
     Arr(<<Num(1), Str(S1)>>),                                  \* 33 [1,'1']
     Arr(<<Str(S1), Str(S01)>>),                                \* 34 ['1','01']
     Arr(<<Str(S1), Num(1)>>),                                  \* 35 ['1',1]
     Rec(<<KeyValue>>, <<Num(1)>>),                             \* 36 {value:1} again
     Rec(<<KeyId, KeyUser>>, <<Num(1), Obj(38)>>),              \* 37 {id:1, user:{id:1,lastLogin:123}}
     Rec(<<KeyId, KeyLastLogin>>, <<Num(1), Num(123)>>),        \* 38 {id:1, lastLogin:123}
     Rec(<<KeyId, KeyUser>>, <<Num(1), Obj(40)>>),              \* 39 {id:1, user:{id:1,lastLogin:456}}
     Rec(<<KeyId, KeyLastLogin>>, <<Num(1), Num(456)>>),        \* 40 {id:1, lastLogin:456}
     Rec(<<KeyId, KeyLastLogin>>, <<Num(1), Num(123)>>),        \* 41 {id:1, lastLogin:123}
     Rec(<<KeyId, KeyLastLogin>>, <<Num(1), Num(456)>>),        \* 42 {id:1, lastLogin:456}
     Rec(<<KeyId, KeyAdmin>>, <<Num(1), Obj(38)>>),             \* 43 {id:1, admin:{id:1,lastLogin:123}}
     Rec(<<KeyId, KeyAdmin>>, <<Num(1), Obj(40)>>),             \* 44 {id:1, admin:{id:1,lastLogin:456}}
     Rec(<<KeyId>>, <<Num(1)>>),                                \* 45 {id:1}
     Rec(<<KeyId, KeyC>>, <<Num(1), Undefined>>),               \* 46 {id:1, c:undefined}
     Rec(<<KeyId>>, <<Num(2)>>),                                \* 47 {id:2}
     Rec(<<KeyValue>>, <<Obj(49)>>),                            \* 48 {value:[1]}
     Arr(<<Num(1)>>),                                           \* 49 [1]
     Rec(<<KeyData>>, <<Obj(52)>>),                             \* 50 {data:[{id:1,lastLogin:123}]}
     Rec(<<KeyData>>, <<Obj(53)>>),                             \* 51 {data:[{id:1,lastLogin:456}]}
     Arr(<<Obj(38)>>),                                          \* 52 [{id:1,lastLogin:123}]
     Arr(<<Obj(40)>>) >>                                        \* 53 [{id:1,lastLogin:456}]

\* The items a caller puts in the array to reorder.
Items == {Obj(r) : r \in (1..11) \cup {18}}

\* obj[key]: an own property of an object; a primitive has none of these keys.
PropAt(o, at) == IF at = {} THEN Undefined ELSE o.vals[CHOOSE i \in at : TRUE]

PropOf(o, key) == PropAt(o, {i \in 1..Len(o.keys) : o.keys[i] = key})

GetProp(v, key) == IF v.kind # "object" THEN Undefined ELSE PropOf(Heap[v.ref], key)

(***************************************************************************)
(* Nested Path Resolver                                                    *)
(***************************************************************************)
\* path.split('.'): the segments between the dots (46), empty ones included.
RECURSIVE SplitFrom(_, _, _)
SplitFrom(rest, cur, acc) ==
  IF rest = <<>> THEN Append(acc, cur)
  ELSE IF Head(rest) = 46 THEN SplitFrom(Tail(rest), <<>>, Append(acc, cur))
  ELSE SplitFrom(Tail(rest), Append(cur, Head(rest)), acc)

Split(path) == SplitFrom(path, <<>>, <<>>)

\* The reducer with a null property taken for a missing one.
StepValue_NullAbsent(truthy, value) ==
  IF truthy /\ value # Undefined /\ value # Null THEN value ELSE Undefined

\* The reducer: current && current[key] !== undefined ? current[key] : undefined
StepValue(truthy, value) ==
  IF truthy /\ value # Undefined THEN value ELSE Undefined

ResolveStep(current, key) == StepValue(Truthy(current), GetProp(current, key))

RECURSIVE Reduce(_, _)
Reduce(current, keys) ==
  IF keys = <<>> THEN current
  ELSE Reduce(ResolveStep(current, Head(keys)), Tail(keys))

getNestedValue(obj, path) == Reduce(obj, Split(path))

(***************************************************************************)
(* Value Comparator                                                        *)
(***************************************************************************)
\* JSON.stringify.  The strings of the heap are letters, which need no
\* escape.  An undefined element of an array is written null, an undefined
\* property of a record is left out.  34 '"', 44 ',', 58 ':', 91 '[',
\* 93 ']', 123 '{', 125 '}'.
JsonNull == <<110, 117, 108, 108>>

JsonTrue == <<116, 114, 117, 101>>

JsonFalse == <<102, 97, 108, 115, 101>>

Quote(s) == <<34>> \o s \o <<34>>

RECURSIVE Join(_)
Join(parts) ==
  IF parts = <<>> THEN <<>>
  ELSE IF Len(parts) = 1 THEN parts[1]
  ELSE parts[1] \o <<44>> \o Join(Tail(parts))

\* The indices of the properties of an object that are not undefined.
DefinedAt(o) ==
  SelectSeq([i \in 1..Len(o.vals) |-> i], LAMBDA i : o.vals[i] # Undefined)

RECURSIVE JSONstringify(_)
Element(o, i) ==
  IF o.vals[i] = Undefined THEN JsonNull ELSE JSONstringify(o.vals[i])

Member(o, i) == Quote(o.keys[i]) \o <<58>> \o JSONstringify(o.vals[i])

Members(o, at) == [j \in 1..Len(at) |-> Member(o, at[j])]

StringifyObject(o) ==
  IF o.isArray
  THEN <<91>> \o Join([i \in 1..Len(o.vals) |-> Element(o, i)]) \o <<93>>
  ELSE <<123>> \o Join(Members(o, DefinedAt(o))) \o <<125>>

JSONstringify(v) ==
  CASE v.kind = "string" -> Quote(v.str)
    [] v.kind = "number" -> NumToStr(v.num)
    [] v.kind = "boolean" -> IF v.num = 1 THEN JsonTrue ELSE JsonFalse
    [] v.kind = "object" -> StringifyObject(Heap[v.ref])
    [] OTHER -> JsonNull

\* The ranking with number and string exchanged.
getTypePriority_NumberFirst(value) ==
  CASE TypeOf(value) = "string" -> 2
    [] TypeOf(value) = "number" -> 1
    [] TypeOf(value) = "boolean" -> 3
    [] TypeOf(value) = "object" -> 4
    [] TypeOf(value) = "undefined" -> 5
    [] OTHER -> 6

getTypePriority(value) ==
  CASE TypeOf(value) = "string" -> 1
    [] TypeOf(value) = "number" -> 2
    [] TypeOf(value) = "boolean" -> 3
    [] TypeOf(value) = "object" -> 4
    [] TypeOf(value) = "undefined" -> 5
    [] OTHER -> 6

\* a < b on two primitives of one type.
Less(a, b) ==
  IF a.kind = "string" THEN StrLess(a.str, b.str) ELSE a.num < b.num

IsNullish(v) == v = Null \/ v = Undefined

\* The comparator with null/undefined below the present values.
compareValues_NullishFirst(a, b) ==
  IF IsNullish(a) THEN (IF IsNullish(b) THEN 0 ELSE -1)
  ELSE IF IsNullish(b) THEN 1
  ELSE IF TypeOf(a) = "object" /\ TypeOf(b) = "object"
    THEN (IF StrLess(JSONstringify(a), JSONstringify(b)) THEN -1 ELSE 1)
  ELSE IF TypeOf(a) # TypeOf(b)
    THEN getTypePriority(a) - getTypePriority(b)
  ELSE IF Less(a, b) THEN -1 ELSE 1

compareValues(a, b) ==
  IF IsNullish(a) THEN (IF IsNullish(b) THEN 0 ELSE 1)
  ELSE IF IsNullish(b) THEN -1
  ELSE IF TypeOf(a) = "object" /\ TypeOf(b) = "object"
    THEN (IF StrLess(JSONstringify(a), JSONstringify(b)) THEN -1 ELSE 1)
  ELSE IF TypeOf(a) # TypeOf(b)
    THEN getTypePriority(a) - getTypePriority(b)
  ELSE IF Less(a, b) THEN -1 ELSE 1

(***************************************************************************)
(* Sort specifications.  A field the caller leaves out is undefined, and   *)
(* the destructuring of the comparator gives it its default.               *)
(***************************************************************************)
Config(key, hasCustomOrder, customOrder, hasDirection, direction, hasAscending, ascending) ==
  [key |-> key,
   hasCustomOrder |-> hasCustomOrder, customOrder |-> customOrder,
   hasDirection |-> hasDirection, direction |-> direction,
   hasAscending |-> hasAscending, ascending |-> ascending]

CustomOrderOf(config) == IF config.hasCustomOrder THEN config.customOrder ELSE <<>>

DirectionOf(config) == IF config.hasDirection THEN config.direction ELSE "start"

AscendingOf(config) == IF config.hasAscending THEN config.ascending ELSE TRUE

\* new Map(customOrder.map((value, index) => [value, index])).get(v): the
\* index (from 0) of the last entry that is v, -1 standing for undefined.
LastOf(at) == IF at = {} THEN -1 ELSE (CHOOSE i \in at : \A j \in at : j <= i) - 1

OrderMapGet(customOrder, v) ==
  LastOf({i \in 1..Len(customOrder) : customOrder[i] = v})

\* The decision with the listed items always at the start.
Decide_StartOnly(config, aIndex, bIndex, sortResult) ==
  IF aIndex # -1 /\ bIndex # -1 THEN aIndex - bIndex
  ELSE IF aIndex # -1 THEN -1
  ELSE IF bIndex # -1 THEN 1
  ELSE IF AscendingOf(config) THEN sortResult ELSE -sortResult

\* The decision with the custom ranks turned round by 'end'.
Decide_RankByDirection(config, aIndex, bIndex, sortResult) ==
  IF aIndex # -1 /\ bIndex # -1
    THEN (IF DirectionOf(config) = "start" THEN aIndex - bIndex ELSE bIndex - aIndex)
  ELSE IF aIndex # -1 THEN (IF DirectionOf(config) = "start" THEN -1 ELSE 1)
  ELSE IF bIndex # -1 THEN (IF DirectionOf(config) = "start" THEN 1 ELSE -1)
  ELSE IF AscendingOf(config) THEN sortResult ELSE -sortResult

\* The decision without the negation for ascending = false.
Decide_AlwaysAscending(config, aIndex, bIndex, sortResult) ==
  IF aIndex # -1 /\ bIndex # -1 THEN aIndex - bIndex
  ELSE IF aIndex # -1 THEN (IF DirectionOf(config) = "start" THEN -1 ELSE 1)
  ELSE IF bIndex # -1 THEN (IF DirectionOf(config) = "start" THEN 1 ELSE -1)
  ELSE sortResult

\* What the comparator returns from aIndex, bIndex and, when neither value
\* is in the customOrder, the sortResult of compareValues.
Decide(config, aIndex, bIndex, sortResult) ==
  IF aIndex # -1 /\ bIndex # -1 THEN aIndex - bIndex
  ELSE IF aIndex # -1 THEN (IF DirectionOf(config) = "start" THEN -1 ELSE 1)
  ELSE IF bIndex # -1 THEN (IF DirectionOf(config) = "start" THEN 1 ELSE -1)
  ELSE IF AscendingOf(config) THEN sortResult ELSE -sortResult

\* One turn of the loop over the configs, for a pair the config does not
\* find identical: the number the comparator returns.
CompareAt(config, aValue, bValue) ==
  Decide(config,
         OrderMapGet(CustomOrderOf(config), aValue),
         OrderMapGet(CustomOrderOf(config), bValue),
         compareValues(aValue, bValue))

\* The comparator handed to sort: (a, b) => { for (const config of configs) ... }
RECURSIVE compareFn(_, _, _)
CompareValuesAt(config, aValue, bValue, a, b, rest) ==
  IF aValue = bValue THEN compareFn(a, b, rest)
  ELSE CompareAt(config, aValue, bValue)

CompareWith(config, a, b, rest) ==
  CompareValuesAt(config, getNestedValue(a, config.key), getNestedValue(b, config.key),
                  a, b, rest)

compareFn(a, b, cfgs) ==
  IF cfgs = <<>> THEN 0 ELSE CompareWith(Head(cfgs), a, b, Tail(cfgs))

(***************************************************************************)
(* Array.prototype.sort with a comparator, as V8 runs it on an array       *)
(* shorter than 64: one run, found by CountAndMakeRun and completed by     *)
(* BinaryInsertionSort.  Every order it decides, it decides by calling     *)
(* the comparator.                                                         *)
(***************************************************************************)
Reverse(s) == [i \in 1..Len(s) |-> s[Len(s) + 1 - i]]

\* The length of the run that starts the array: strictly descending if the
\* second element is below the first, else non-descending.
RunBreaks(isDescending, order) == IF isDescending THEN order >= 0 ELSE order < 0

RECURSIVE RunLength(_, _, _, _)
RunLength(work, cfgs, isDescending, len) ==
  IF len = Len(work) THEN len
  ELSE IF RunBreaks(isDescending, compareFn(work[len + 1], work[len], cfgs)) THEN len
  ELSE RunLength(work, cfgs, isDescending, len + 1)

\* Where the pivot goes in the sorted work[left+1..right]: the binary search.
RECURSIVE InsertionPoint(_, _, _, _, _)
ProbeAt(work, cfgs, pivot, left, right, mid) ==
  IF compareFn(pivot, work[mid + 1], cfgs) < 0
  THEN InsertionPoint(work, cfgs, pivot, left, mid)
  ELSE InsertionPoint(work, cfgs, pivot, mid + 1, right)

InsertionPoint(work, cfgs, pivot, left, right) ==
  IF left >= right THEN left
  ELSE ProbeAt(work, cfgs, pivot, left, right, left + ((right - left) \div 2))

\* The move that writes the element at its place over the one there,
\* without shifting the others.
MoveTo_Overwrite(work, start, left) ==
  [p \in 1..Len(work) |-> IF p = left + 1 THEN work[start + 1] ELSE work[p]]

\* work with work[start+1] moved to place left+1.
MoveTo(work, start, left) ==
  [p \in 1..Len(work) |->
     IF p <= left \/ p > start + 1 THEN work[p]
     ELSE IF p = left + 1 THEN work[start + 1]
     ELSE work[p - 1]]

\* Insert work[start+1], work[start+2], ... each into the sorted prefix.
RECURSIVE BinaryInsertionSort(_, _, _)
BinaryInsertionSort(work, cfgs, start) ==
  IF start >= Len(work) THEN work
  ELSE BinaryInsertionSort(
         MoveTo(work, start, InsertionPoint(work, cfgs, work[start + 1], 0, start)),
         cfgs, start + 1)

\* The array with its first run made ascending.
MakeRun(work, isDescending, runLength) ==
  IF isDescending
  THEN Reverse(SubSeq(work, 1, runLength)) \o SubSeq(work, runLength + 1, Len(work))
  ELSE work

SortFromRun(work, cfgs, isDescending, runLength) ==
  BinaryInsertionSort(MakeRun(work, isDescending, runLength), cfgs, runLength)

SortRun(work, cfgs, isDescending) ==
  SortFromRun(work, cfgs, isDescending, RunLength(work, cfgs, isDescending, 2))

Sort(work, cfgs) ==
  IF Len(work) < 2 THEN work
  ELSE SortRun(work, cfgs, compareFn(work[2], work[1], cfgs) < 0)

(***************************************************************************)
(* Reorder Engine                                                          *)
(***************************************************************************)
\* array.sort(...) without the copy: the caller's array is the one sorted.
reorderArray_InPlace(arr, cfgs) == [ret |-> Sort(arr, cfgs), arg |-> Sort(arr, cfgs)]

\* return [...array].sort(...): ret is the array returned, arg the elements
\* of the caller's array when the call returns.
reorderArray(arr, cfgs) == [ret |-> Sort(arr, cfgs), arg |-> arr]

\* What the caller passes for the two parameters: its array and its list of
\* specs, or for the array a value that is no array (null), for the list a
\* value that is no list (null) or a list whose first spec has no key.
Given(items, specs) == [items |-> items, specs |-> specs]

AsTyped == Given("array", "array")

\* [...array] throws a TypeError on a value that cannot be iterated.
SpreadThrows(g) == g.items # "array"

\* The comparator throws a TypeError when it is called: `for (const config
\* of configs)` on a value that cannot be iterated, path.split('.') in
\* getNestedValue on the undefined key.  sort calls the comparator when it
\* has two elements or more.
ComparatorThrows(g, arr) == g.specs # "array" /\ Len(arr) >= 2

\* The call with the arguments as given: what it returns or throws.
Invoke(g, arr, cfgs) ==
  IF SpreadThrows(g) \/ ComparatorThrows(g, arr)
  THEN [ret |-> <<>>, arg |-> arr, thrown |-> "TypeError"]
  ELSE [ret |-> reorderArray(arr, cfgs).ret, arg |-> reorderArray(arr, cfgs).arg,
        thrown |-> "none"]

(***************************************************************************)
(* Deep Equality Engine: isArrayEqual of src/utils/array/isArrayEqual.ts   *)
(***************************************************************************)
\* The options, with the fields the caller leaves out.
Options(hasStrict, strict, hasIgnoreOrder, ignoreOrder, hasIgnoreKeys, ignoreKeys) ==
  [hasStrict |-> hasStrict, strict |-> strict,
   hasIgnoreOrder |-> hasIgnoreOrder, ignoreOrder |-> ignoreOrder,
   hasIgnoreKeys |-> hasIgnoreKeys, ignoreKeys |-> ignoreKeys]

\* const { strict = true, ignoreOrder = false, ignoreKeys = [] } = options
StrictOf(opt) == IF opt.hasStrict THEN opt.strict ELSE TRUE

IgnoreOrderOf(opt) == IF opt.hasIgnoreOrder THEN opt.ignoreOrder ELSE FALSE

IgnoreKeysOf(opt) == IF opt.hasIgnoreKeys THEN opt.ignoreKeys ELSE <<>>

\* The arguments arr1, arr2: null, undefined or an array, which has an
\* identity (ref) apart from its elements.
TopNull == [kind |-> "null", ref |-> 0, elems |-> <<>>]

TopUndefined == [kind |-> "undefined", ref |-> 0, elems |-> <<>>]

TopArray(ref, elems) == [kind |-> "array", ref |-> ref, elems |-> elems]

\* Array.isArray, the elements of an array, hasOwnProperty.
IsArray(v) == v.kind = "object" /\ Heap[v.ref].isArray

Elems(v) == Heap[v.ref].vals

HasOwn(v, key) == \E i \in 1..Len(Heap[v.ref].keys) : Heap[v.ref].keys[i] = key

\* [...path, key].join('.')
RECURSIVE JoinDots(_)
JoinDots(parts) ==
  IF parts = <<>> THEN <<>>
  ELSE IF Len(parts) = 1 THEN parts[1]
  ELSE parts[1] \o <<46>> \o JoinDots(Tail(parts))

\* ignoreKeys.includes(s)
Includes(list, s) == \E i \in 1..Len(list) : list[i] = s

\* Object.keys(obj).filter((key) => !ignoreKeys.includes([...path, key].join('.')))
FilterKeys(v, path, opt) ==
  SelectSeq(Heap[v.ref].keys,
            LAMBDA key : ~Includes(IgnoreKeysOf(opt), JoinDots(Append(path, key))))

\* StringToNumber on a string of decimal digits, with a '-' before them or
\* not: '' is 0, a string with another character is NaN, equal to no number.
RECURSIVE ParseDigits(_, _)
ParseDigits(s, acc) ==
  IF s = <<>> THEN acc ELSE ParseDigits(Tail(s), 10 * acc + (Head(s) - 48))

AllDigits(s) == s # <<>> /\ \A i \in 1..Len(s) : s[i] >= 48 /\ s[i] <= 57

NumEqStr(n, s) ==
  IF s = <<>> THEN n = 0
  ELSE IF Head(s) = 45 THEN AllDigits(Tail(s)) /\ n = -ParseDigits(Tail(s), 0)
  ELSE AllDigits(s) /\ n = ParseDigits(s, 0)

\* ToPrimitive of an object, which is its toString: the elements of an
\* array joined with ',', null and undefined as '', and '[object Object]'
\* for a record.
ObjectObject == <<91, 111, 98, 106, 101, 99, 116, 32, 79, 98, 106, 101, 99, 116, 93>>

RECURSIVE ToStr(_)
ElementString(v) == IF v = Null \/ v = Undefined THEN <<>> ELSE ToStr(v)

ToStr(v) ==
  CASE v.kind = "string" -> v.str
    [] v.kind = "number" -> NumToStr(v.num)
    [] v.kind = "boolean" -> IF v.num = 1 THEN JsonTrue ELSE JsonFalse
    [] v.kind = "null" -> JsonNull
    [] v.kind = "undefined" -> <<117, 110, 100, 101, 102, 105, 110, 101, 100>>
    [] OTHER -> IF IsArray(v)
                THEN Join([i \in 1..Len(Elems(v)) |-> ElementString(Elems(v)[i])])
                ELSE ObjectObject

\* x == y, the loose equality of the language.
RECURSIVE LooseEq(_, _)
LooseEq(x, y) ==
  IF x.kind = y.kind THEN x = y
  ELSE IF (x = Null \/ x = Undefined) /\ (y = Null \/ y = Undefined) THEN TRUE
  ELSE IF x = Null \/ x = Undefined \/ y = Null \/ y = Undefined THEN FALSE
  ELSE IF x.kind = "number" /\ y.kind = "string" THEN NumEqStr(x.num, y.str)
  ELSE IF x.kind = "string" /\ y.kind = "number" THEN NumEqStr(y.num, x.str)
  ELSE IF x.kind = "boolean" THEN LooseEq(Num(x.num), y)
  ELSE IF y.kind = "boolean" THEN LooseEq(x, Num(y.num))
  ELSE IF x.kind = "object" THEN LooseEq(Str(ToStr(x)), y)
  ELSE LooseEq(x, Str(ToStr(y)))

\* remaining2.splice(matchIndex, 1)
Splice(s, i) == SubSeq(s, 1, i - 1) \o SubSeq(s, i + 1, Len(s))

RECURSIVE isEqual(_, _, _, _)
\* remaining2.findIndex((item2) => isEqual(item1, item2, [...path])): the
\* first place from `from` on, 0 standing for -1.
RECURSIVE FindIndex(_, _, _, _, _)
FindIndex(item1, remaining2, path, opt, from) ==
  IF from > Len(remaining2) THEN 0
  ELSE IF isEqual(item1, remaining2[from], path, opt) THEN from
  ELSE FindIndex(item1, remaining2, path, opt, from + 1)

\* obj1.every((item1) => { matchIndex ...; splice; return true }): whether
\* every item found a match, and remaining2 when every() returns.
RECURSIVE EveryItem(_, _, _, _)
AfterFind(items1, remaining2, path, opt, matchIndex) ==
  IF matchIndex = 0 THEN [ok |-> FALSE, remaining2 |-> remaining2]
  ELSE EveryItem(Tail(items1), Splice(remaining2, matchIndex), path, opt)

EveryItem(items1, remaining2, path, opt) ==
  IF items1 = <<>> THEN [ok |-> TRUE, remaining2 |-> remaining2]
  ELSE AfterFind(items1, remaining2, path, opt,
                 FindIndex(Head(items1), remaining2, path, opt, 1))

\* The matching that consumes the array it is given.
Unordered_InPlace(items1, items2, path, opt) ==
  [ok |-> EveryItem(items1, items2, path, opt).ok,
   source |-> EveryItem(items1, items2, path, opt).remaining2]

\* const remaining2 = [...obj2]; return obj1.every(...): the answer, and
\* the elements of obj2 when it returns.
Unordered(items1, items2, path, opt) ==
  [ok |-> EveryItem(items1, items2, path, opt).ok, source |-> items2]

\* obj1.every((item, index) => isEqual(item, obj2[index], [...path, index.toString()]))
EveryIndex(items1, items2, path, opt) ==
  \A index \in 1..Len(items1) :
    isEqual(items1[index], items2[index], Append(path, NumToStr(index - 1)), opt)

ArraysEqual(items1, items2, path, opt) ==
  IF Len(items1) # Len(items2) THEN FALSE
  ELSE IF IgnoreOrderOf(opt) THEN Unordered(items1, items2, path, opt).ok
  ELSE EveryIndex(items1, items2, path, opt)

\* The comparison of the keys without the length test.
KeysEqual_NoLength(obj1, obj2, path, opt, keys1, keys2) ==
  \A i \in 1..Len(keys1) :
    /\ HasOwn(obj2, keys1[i])
    /\ isEqual(GetProp(obj1, keys1[i]), GetProp(obj2, keys1[i]),
               Append(path, keys1[i]), opt)

\* keys1.length !== keys2.length, keys1.every(...)
KeysEqual(obj1, obj2, path, opt, keys1, keys2) ==
  IF Len(keys1) # Len(keys2) THEN FALSE
  ELSE \A i \in 1..Len(keys1) :
         /\ HasOwn(obj2, keys1[i])
         /\ isEqual(GetProp(obj1, keys1[i]), GetProp(obj2, keys1[i]),
                    Append(path, keys1[i]), opt)

ObjectsEqual(obj1, obj2, path, opt) ==
  KeysEqual(obj1, obj2, path, opt,
            FilterKeys(obj1, path, opt), FilterKeys(obj2, path, opt))

\* The helper isEqual(obj1, obj2, path) of isArrayEqual, which reads the
\* options of the call.
isEqual(obj1, obj2, path, opt) ==
  IF obj1 = obj2 THEN TRUE
  ELSE IF ~Truthy(obj1) \/ ~Truthy(obj2) THEN FALSE
  ELSE IF StrictOf(opt) /\ TypeOf(obj1) # TypeOf(obj2) THEN FALSE
  ELSE IF IsArray(obj1) /\ IsArray(obj2)
    THEN ArraysEqual(Elems(obj1), Elems(obj2), path, opt)
  ELSE IF TypeOf(obj1) = "object" /\ TypeOf(obj2) = "object"
    THEN ObjectsEqual(obj1, obj2, path, opt)
  ELSE IF StrictOf(opt) THEN obj1 = obj2
  ELSE LooseEq(obj1, obj2)

\* arr1.every((item, index) => isEqual(item, arr2[index], []))
EveryTop(items1, items2, opt) ==
  \A index \in 1..Len(items1) : isEqual(items1[index], items2[index], <<>>, opt)

\* The main comparison, of two arrays of one length: the answer and the
\* elements of arr2 when it returns.
Main(items1, items2, opt) ==
  IF IgnoreOrderOf(opt) THEN Unordered(items1, items2, <<>>, opt)
  ELSE [ok |-> EveryTop(items1, items2, opt), source |-> items2]

Return(a, b, ret) == [ret |-> ret, arr1 |-> a, arr2 |-> b]

\* isArrayEqual without the test of identity.
isArrayEqual_NoIdentity(a, b, opt) ==
  IF a.kind # "array" \/ b.kind # "array" THEN Return(a, b, FALSE)
  ELSE IF Len(a.elems) # Len(b.elems) THEN Return(a, b, FALSE)
  ELSE Return(a, TopArray(b.ref, Main(a.elems, b.elems, opt).source),
              Main(a.elems, b.elems, opt).ok)

\* isArrayEqual with the test of the lengths false only for a longer arr1.
isArrayEqual_LongerOnly(a, b, opt) ==
  IF a = b THEN Return(a, b, TRUE)
  ELSE IF a.kind # "array" \/ b.kind # "array" THEN Return(a, b, FALSE)
  ELSE IF Len(a.elems) > Len(b.elems) THEN Return(a, b, FALSE)
  ELSE Return(a, TopArray(b.ref, Main(a.elems, b.elems, opt).source),
              Main(a.elems, b.elems, opt).ok)

\* isArrayEqual(arr1, arr2, options): what it returns, and the arguments
\* when it returns.
isArrayEqual(a, b, opt) ==
  IF a = b THEN Return(a, b, TRUE)
  ELSE IF a.kind # "array" \/ b.kind # "array" THEN Return(a, b, FALSE)
  ELSE IF Len(a.elems) # Len(b.elems) THEN Return(a, b, FALSE)
  ELSE Return(a, TopArray(b.ref, Main(a.elems, b.elems, opt).source),
              Main(a.elems, b.elems, opt).ok)

(***************************************************************************)
(* The flat-key reorderArray of array/reorderArray.ts, the one the package *)
(* exports: the value of an item under a spec is a[key], and compareValues *)
(* has no case for null, undefined or two objects.                         *)
(***************************************************************************)
getTypePriorityFlat(value) ==
  CASE TypeOf(value) = "string" -> 1
    [] TypeOf(value) = "number" -> 2
    [] TypeOf(value) = "boolean" -> 3
    [] TypeOf(value) = "object" -> 4
    [] TypeOf(value) = "undefined" -> 5
    [] OTHER -> 6

\* a < b on two values that typeof gave one type, from their primitives px
\* and py: two strings by code units, else both as numbers, null being 0,
\* undefined NaN and a string its StringToNumber; NaN is below and above
\* nothing.
PrimitiveLess(px, py) ==
  IF px.kind = "string" /\ py.kind = "string" THEN StrLess(px.str, py.str)
  ELSE IF px.kind = "undefined" \/ py.kind = "undefined" THEN FALSE
  ELSE IF px.kind = "string"
    THEN px.str # <<>> /\ Head(px.str) = 45 /\ AllDigits(Tail(px.str))
         /\ ParseDigits(Tail(px.str), 0) > 0
  ELSE IF py.kind = "string" THEN AllDigits(py.str) /\ ParseDigits(py.str, 0) > 0
  ELSE px.num < py.num

\* The comparator with the priorities of two types subtracted the other
\* way round.
compareValuesFlat_PriorityReversed(a, b) ==
  IF TypeOf(a) # TypeOf(b)
    THEN getTypePriorityFlat(b) - getTypePriorityFlat(a)
  ELSE IF PrimitiveLess(IF a.kind = "object" THEN Str(ToStr(a)) ELSE a,
                        IF b.kind = "object" THEN Str(ToStr(b)) ELSE b) THEN -1
  ELSE 1

compareValuesFlat(a, b) ==
  IF TypeOf(a) # TypeOf(b)
    THEN getTypePriorityFlat(a) - getTypePriorityFlat(b)
  ELSE IF PrimitiveLess(IF a.kind = "object" THEN Str(ToStr(a)) ELSE a,
                        IF b.kind = "object" THEN Str(ToStr(b)) ELSE b) THEN -1
  ELSE 1

\* What the comparator returns from aIndex, bIndex and sortResult.
DecideFlat(config, aIndex, bIndex, sortResult) ==
  IF aIndex # -1 /\ bIndex # -1 THEN aIndex - bIndex
  ELSE IF aIndex # -1 THEN (IF DirectionOf(config) = "start" THEN -1 ELSE 1)
  ELSE IF bIndex # -1 THEN (IF DirectionOf(config) = "start" THEN 1 ELSE -1)
  ELSE IF AscendingOf(config) THEN sortResult ELSE -sortResult

\* The comparator handed to sort, with aValue = a[key] and bValue = b[key].
RECURSIVE compareFnFlat(_, _, _)
CompareValuesAtFlat(config, aValue, bValue, a, b, rest) ==
  IF aValue = bValue THEN compareFnFlat(a, b, rest)
  ELSE DecideFlat(config,
                  OrderMapGet(CustomOrderOf(config), aValue),
                  OrderMapGet(CustomOrderOf(config), bValue),
                  compareValuesFlat(aValue, bValue))

CompareWithFlat(config, a, b, rest) ==
  CompareValuesAtFlat(config, GetProp(a, config.key), GetProp(b, config.key),
                      a, b, rest)

compareFnFlat(a, b, cfgs) ==
  IF cfgs = <<>> THEN 0 ELSE CompareWithFlat(Head(cfgs), a, b, Tail(cfgs))

\* Array.prototype.sort with this comparator: the same run and binary
\* insertion.
RECURSIVE RunLengthFlat(_, _, _, _)
RunLengthFlat(work, cfgs, isDescending, len) ==
  IF len = Len(work) THEN len
  ELSE IF RunBreaks(isDescending, compareFnFlat(work[len + 1], work[len], cfgs)) THEN len
  ELSE RunLengthFlat(work, cfgs, isDescending, len + 1)

RECURSIVE InsertionPointFlat(_, _, _, _, _)
InsertionPointFlat(work, cfgs, pivot, left, right) ==
  IF left >= right THEN left
  ELSE IF compareFnFlat(pivot, work[left + ((right - left) \div 2) + 1], cfgs) < 0
    THEN InsertionPointFlat(work, cfgs, pivot, left, left + ((right - left) \div 2))
  ELSE InsertionPointFlat(work, cfgs, pivot, left + ((right - left) \div 2) + 1, right)

RECURSIVE BinaryInsertionSortFlat(_, _, _)
BinaryInsertionSortFlat(work, cfgs, start) ==
  IF start >= Len(work) THEN work
  ELSE BinaryInsertionSortFlat(
         MoveTo(work, start, InsertionPointFlat(work, cfgs, work[start + 1], 0, start)),
         cfgs, start + 1)

SortRunFlat(work, cfgs, isDescending, runLength) ==
  BinaryInsertionSortFlat(MakeRun(work, isDescending, runLength), cfgs, runLength)

SortFlat(work, cfgs) ==
  IF Len(work) < 2 THEN work
  ELSE SortRunFlat(work, cfgs, compareFnFlat(work[2], work[1], cfgs) < 0,
                   RunLengthFlat(work, cfgs, compareFnFlat(work[2], work[1], cfgs) < 0, 2))

\* return [...array].sort(...)
reorderArrayFlat(arr, cfgs) == [ret |-> SortFlat(arr, cfgs), arg |-> arr]

(***************************************************************************)
(* The caller: it builds an array of items, calls reorderArray with a list *)
(* of sort specifications, then calls it again on what it got back.        *)
(***************************************************************************)
MaxLen == 3

\* customOrder: [1, 'a']
CustomOrder == <<Num(1), Str(SA)>>

ByP == Config(KeyP, FALSE, <<>>, FALSE, "start", FALSE, TRUE)

ByPAsc == Config(KeyP, FALSE, <<>>, FALSE, "start", TRUE, TRUE)

ByPDesc == Config(KeyP, FALSE, <<>>, FALSE, "start", TRUE, FALSE)

ByPCustom == Config(KeyP, TRUE, CustomOrder, FALSE, "start", FALSE, TRUE)

ByPCustomEnd == Config(KeyP, TRUE, CustomOrder, TRUE, "end", TRUE, TRUE)

ByPCustomDesc == Config(KeyP, TRUE, CustomOrder, TRUE, "start", TRUE, FALSE)

ByPCustomEndDesc == Config(KeyP, TRUE, CustomOrder, TRUE, "end", TRUE, FALSE)

ByQ == Config(KeyQ, FALSE, <<>>, FALSE, "start", FALSE, TRUE)

ByQDesc == Config(KeyQ, FALSE, <<>>, FALSE, "start", TRUE, FALSE)

ByUN == Config(PathUN, FALSE, <<>>, FALSE, "start", TRUE, TRUE)

\* The lists of sort specifications a caller passes: one key and the
\* default comparator, one key with a customOrder, several keys.
PlainLists ==
  { <<>>, <<ByP>>, <<ByPAsc>>, <<ByPDesc>>, <<ByQ>>, <<ByUN>> }

CustomLists ==
  { <<ByPCustom>>, <<ByPCustomEnd>>, <<ByPCustomDesc>>, <<ByPCustomEndDesc>> }

MultiLists ==
  { <<ByP, ByQ>>, <<ByPDesc, ByQ>>, <<ByPCustom, ByQDesc>>,
    <<ByQ, ByP>>, <<ByQDesc, ByUN>>, <<ByUN, ByQ, ByPDesc>> }

\* A caller that compares no arrays.
NoComparison ==
  /\ arr1 = TopUndefined
  /\ arr2 = TopUndefined
  /\ options = Options(FALSE, TRUE, FALSE, FALSE, FALSE, <<>>)
  /\ elements = {}
  /\ answer = FALSE

InitWith(lists) ==
  /\ array = <<>>
  /\ configs \in lists
  /\ pc = "build"
  /\ result = <<>>
  /\ result2 = <<>>
  /\ given = AsTyped
  /\ thrown = "none"
  /\ NoComparison

Init == InitWith(PlainLists)

InitCustom == InitWith(CustomLists)

InitMulti == InitWith(MultiLists)

\* Lists of specs whose keys are property names, none a path: a customOrder
\* with each direction and each ascending, alone and with a second key.
FlatKeyLists ==
  { <<ByPCustom, ByQDesc>>, <<ByQ, ByPCustomEnd>>, <<ByPCustomDesc>>,
    <<ByPCustomEndDesc, ByQ>>, <<ByPDesc, ByQ>> }

\* The caller appends an item the array does not hold yet.
Push(item) ==
  /\ pc = "build"
  /\ Len(array) < MaxLen
  /\ \A i \in 1..Len(array) : array[i] # item
  /\ array' = Append(array, item)
  /\ UNCHANGED <<configs, pc, result, result2, given, thrown, equalityVars>>

Call ==
  /\ pc = "build"
  /\ \E call \in {Invoke(given, array, configs)} :
       /\ result' = call.ret
       /\ array' = call.arg
       /\ thrown' = call.thrown
  /\ pc' = "called"
  /\ UNCHANGED <<configs, result2, given, equalityVars>>

CallAgain ==
  /\ pc = "called"
  /\ thrown = "none"
  /\ \E call \in {Invoke(given, result, configs)} :
       /\ result2' = call.ret
       /\ result' = call.arg
       /\ thrown' = call.thrown
  /\ pc' = "recalled"
  /\ UNCHANGED <<array, configs, given, equalityVars>>

Next ==
  \/ \E item \in Items : Push(item)
  \/ Call
  \/ CallAgain

Spec == Init /\ [][Next]_vars

SpecCustom == InitCustom /\ [][Next]_vars

SpecMulti == InitMulti /\ [][Next]_vars

SpecFlatKeys == InitWith(FlatKeyLists) /\ [][Next]_vars

\* The caller that passes arguments of any kind.
Givens == {Given(i, s) : i \in {"array", "null"}, s \in {"array", "null", "nokey"}}

InitGiven ==
  /\ array = <<>>
  /\ configs \in {<<ByP>>, <<ByQ, ByP>>}
  /\ pc = "build"
  /\ result = <<>>
  /\ result2 = <<>>
  /\ given \in Givens
  /\ thrown = "none"
  /\ NoComparison

SpecGiven == InitGiven /\ [][Next]_vars

(***************************************************************************)
(* The caller of isArrayEqual: it holds two arrays (or null, undefined),   *)
(* appends elements to them, and compares them, or one with itself.        *)
(***************************************************************************)
MaxItems == 2

\* [{value: p}] for the primitives p, and {value:[1]}.
PrimitiveElements == {Obj(r) : r \in (20..28) \cup {48}}

\* Elements with loosely equal values and with nested sequences.
OrderElements == {Obj(21), Obj(36), Obj(24), Obj(29), Obj(30), Obj(31), Obj(32)}

\* Records with lastLogin under user, at the top, under admin.
PathElements == {Obj(37), Obj(39), Obj(41), Obj(42), Obj(43), Obj(44)}

\* Records with lastLogin in the element of a nested sequence.
SequenceElements == {Obj(50), Obj(51)}

\* Records with different sets of keys.
RecordElements == {Obj(45), Obj(46), Obj(47), Obj(41), Obj(42)}

\* A caller that reorders nothing.
NoReorder ==
  /\ array = <<>>
  /\ configs = <<>>
  /\ result = <<>>
  /\ result2 = <<>>
  /\ given = AsTyped
  /\ thrown = "none"

InitEqualWith(tops, universes, optionSet) ==
  /\ NoReorder
  /\ pc = "build"
  /\ arr1 \in tops
  /\ arr2 \in {IF t.kind = "array" THEN TopArray(2, t.elems) ELSE t : t \in tops}
  /\ options \in optionSet
  /\ elements \in universes
  /\ answer = FALSE

Tops == {TopNull, TopUndefined, TopArray(1, <<>>)}

\* {}, {strict:true}, {strict:false}
StrictOptions ==
  {Options(FALSE, TRUE, FALSE, FALSE, FALSE, <<>>),
   Options(TRUE, TRUE, FALSE, FALSE, FALSE, <<>>),
   Options(TRUE, FALSE, FALSE, FALSE, FALSE, <<>>)}

\* strict and ignoreOrder, each true or false.
OrderOptions ==
  {Options(TRUE, st, TRUE, io, FALSE, <<>>) : st \in BOOLEAN, io \in BOOLEAN}

\* ignoreKeys: none, [], ['user.lastLogin'], ['lastLogin'], ['c']
KeyOptions ==
  {Options(FALSE, TRUE, FALSE, FALSE, FALSE, <<>>)} \cup
  {Options(FALSE, TRUE, FALSE, FALSE, TRUE, ik) :
     ik \in {<<>>, <<PathUserLastLogin>>, <<KeyLastLogin>>, <<KeyC>>}}

\* ignoreKeys: [], ['user.lastLogin'], ['lastLogin'], ['data.0.lastLogin'],
\* with ignoreOrder left out or true.
PathOptions ==
  {Options(FALSE, TRUE, io, TRUE, TRUE, ik) :
     io \in BOOLEAN,
     ik \in {<<>>, <<PathUserLastLogin>>, <<KeyLastLogin>>, <<PathData0LastLogin>>}}

InitEqual == InitEqualWith(Tops, {PrimitiveElements}, StrictOptions)

InitEqualOrder == InitEqualWith({TopArray(1, <<>>)}, {OrderElements}, OrderOptions)

InitEqualKeys ==
  InitEqualWith({TopArray(1, <<>>)}, {PathElements, RecordElements}, KeyOptions)

\* strict and ignoreOrder, each true or false, with ignoreKeys [] or ['value'].
AnyOptions ==
  {Options(TRUE, st, TRUE, io, TRUE, ik) :
     st \in BOOLEAN, io \in BOOLEAN, ik \in {<<>>, <<KeyValue>>}}

\* {value:0}, {value:1}, {value:null}
FewElements == {Obj(20), Obj(21), Obj(27)}

InitEqualAny == InitEqualWith(Tops, {FewElements}, AnyOptions)

InitEqualPaths ==
  InitEqualWith({TopArray(1, <<>>)}, {PathElements \cup SequenceElements}, PathOptions)

\* arr1.push(item), arr2.push(item)
Push1(item) ==
  /\ pc = "build"
  /\ arr1.kind = "array"
  /\ Len(arr1.elems) < MaxItems
  /\ arr1' = TopArray(arr1.ref, Append(arr1.elems, item))
  /\ UNCHANGED <<reorderVars, pc, arr2, options, elements, answer>>

Push2(item) ==
  /\ pc = "build"
  /\ arr2.kind = "array"
  /\ Len(arr2.elems) < MaxItems
  /\ arr2' = TopArray(arr2.ref, Append(arr2.elems, item))
  /\ UNCHANGED <<reorderVars, pc, arr1, options, elements, answer>>

\* isArrayEqual(arr1, arr2, options)
Compare ==
  /\ pc = "build"
  /\ \E call \in {isArrayEqual(arr1, arr2, options)} :
       /\ answer' = call.ret
       /\ arr1' = call.arr1
       /\ arr2' = call.arr2
  /\ pc' = "compared"
  /\ UNCHANGED <<reorderVars, options, elements>>

\* isArrayEqual(arr1, arr1, options)
CompareSame ==
  /\ pc = "build"
  /\ \E call \in {isArrayEqual(arr1, arr1, options)} :
       /\ answer' = call.ret
       /\ arr1' = call.arr1
  /\ pc' = "same"
  /\ UNCHANGED <<reorderVars, arr2, options, elements>>

NextEqual ==
  \/ \E item \in elements : Push1(item)
  \/ \E item \in elements : Push2(item)
  \/ Compare
  \/ CompareSame

SpecEqual == InitEqual /\ [][NextEqual]_vars

SpecEqualOrder == InitEqualOrder /\ [][NextEqual]_vars

SpecEqualKeys == InitEqualKeys /\ [][NextEqual]_vars

SpecEqualPaths == InitEqualPaths /\ [][NextEqual]_vars

SpecEqualAny == InitEqualAny /\ [][NextEqual]_vars

(***************************************************************************)
(* Properties                                                              *)
(***************************************************************************)
\* The items of s that are x or y, in the order s has them.
Only(s, x, y) == SelectSeq(s, LAMBDA e : e = x \/ e = y)

\* The elements of a sequence.
Range(s) == {s[i] : i \in 1..Len(s)}

\* The value a spec sorts an item by.
ValueAt(item, config) == getNestedValue(item, config.key)

\* x is before y in s, which holds each once.
Pos(s, x) == CHOOSE i \in 1..Len(s) : s[i] = x

Before(s, x, y) == Pos(s, x) < Pos(s, y)

\* The value is one of the entries of the customOrder of the spec.
Listed(config, v) ==
  \E i \in 1..Len(CustomOrderOf(config)) : CustomOrderOf(config)[i] = v

\* C1: a call of reorderArray leaves the caller's array as it was: the
\* same items at the same positions after the call as before it, for the
\* first call (on array) and for the second (on the sequence returned).
C1_InputUntouched ==
  [][/\ (pc = "build" /\ pc' = "called" => array' = array)
     /\ (pc = "called" /\ pc' = "recalled" => result' = result)]_vars

\* A call has returned an order other than the input's.
C1_Witness == pc = "called" /\ Len(array) = MaxLen /\ result # array

\* Every spec judges the pair equal: identical values at its key, or a
\* comparison that yields 0.
EqualAcrossAllSpecs(x, y) ==
  \A k \in 1..Len(configs) :
    \/ ValueAt(x, configs[k]) = ValueAt(y, configs[k])
    \/ CompareAt(configs[k], ValueAt(x, configs[k]), ValueAt(y, configs[k])) = 0

\* C2: stability.  Two items that compare equal across all specs are in
\* the output in the relative order the input has them in.
C2_Stable ==
  pc # "build" =>
    \A x, y \in Range(array) :
      x # y /\ EqualAcrossAllSpecs(x, y) => Only(result, x, y) = Only(array, x, y)

\* C3: idempotence.  Reordering the reordered sequence by the same specs
\* returns it as it is.
C3_Idempotent == pc = "recalled" => result2 = result

\* C4 as claimed: under a single spec with a customOrder the listed items
\* are before the unlisted ones with direction 'start' and after them with
\* 'end', and no unlisted item is before an unlisted item the default
\* comparator puts below it (the unlisted ones ascend).
C4_Placement(unlistedAscend) ==
  pc = "called" /\ Len(configs) = 1 /\ configs[1].hasCustomOrder =>
    LET c == configs[1] IN
    \A x, y \in Range(array) :
      LET vx == ValueAt(x, c)
          vy == ValueAt(y, c)
      IN /\ Listed(c, vx) /\ ~Listed(c, vy) =>
              IF DirectionOf(c) = "start" THEN Before(result, x, y)
              ELSE Before(result, y, x)
         /\ x # y /\ ~Listed(c, vx) /\ ~Listed(c, vy) /\ Before(result, x, y) =>
              IF unlistedAscend THEN compareValues(vy, vx) >= 0
              ELSE compareValues(vx, vy) >= 0

C4_UnlistedAscend == C4_Placement(TRUE)

\* C4, amended: listed before unlisted with 'start', after with 'end'; the
\* unlisted ascend by the default comparator when the spec's ascending is
\* true (the default), and descend when it is false.
C4_UnlistedByAscending ==
  C4_Placement(Len(configs) = 1 => AscendingOf(configs[1]))

\* Listed and unlisted items were sorted, with 'end' and descending.
C4_Witness ==
  /\ pc = "called"
  /\ configs = <<ByPCustomEndDesc>>
  /\ array = <<Obj(1), Obj(2), Obj(11)>>
  /\ result = <<Obj(11), Obj(2), Obj(1)>>

\* The first place of a value in a customOrder without repeated entries.
IndexIn(customOrder, v) ==
  CHOOSE i \in 1..Len(customOrder) : customOrder[i] = v

\* C5: of two items whose values are both in the customOrder, the one
\* with the lower customOrder index comes first, and it does so under
\* every direction and every ascending with the same key and customOrder.
C5_CustomRank ==
  pc = "called" /\ Len(configs) = 1 /\ configs[1].hasCustomOrder =>
    LET c == configs[1] IN
    \A other \in {l \in CustomLists :
                    l[1].key = c.key /\ CustomOrderOf(l[1]) = CustomOrderOf(c)} :
      LET alt == reorderArray(array, other).ret IN
      \A x, y \in Range(array) :
        LET vx == ValueAt(x, c)
            vy == ValueAt(y, c)
        IN /\ Listed(c, vx) /\ Listed(c, vy)
           /\ IndexIn(CustomOrderOf(c), vx) < IndexIn(CustomOrderOf(c), vy)
           => Before(result, x, y) /\ Before(alt, x, y)

\* Two listed items were put in customOrder's order, against the default
\* comparator's, with the listed ones at the end.
C5_Witness ==
  /\ pc = "called"
  /\ configs = <<ByPCustomEnd>>
  /\ array = <<Obj(1), Obj(2), Obj(3)>>
  /\ result = <<Obj(2), Obj(3), Obj(1)>>

\* The spec judges the pair equal.
TieAt(config, x, y) ==
  \/ ValueAt(x, config) = ValueAt(y, config)
  \/ CompareAt(config, ValueAt(x, config), ValueAt(y, config)) = 0

\* The first spec at whose key the two items have different values.
FirstDiff(x, y) ==
  CHOOSE k \in 1..Len(configs) :
    /\ ValueAt(x, configs[k]) # ValueAt(y, configs[k])
    /\ \A j \in 1..(k - 1) : ValueAt(x, configs[j]) = ValueAt(y, configs[j])

Differ(x, y) ==
  \E k \in 1..Len(configs) : ValueAt(x, configs[k]) # ValueAt(y, configs[k])

\* C6: specs count in list order.  The first spec at whose key two items
\* have different values orders them, when it ranks one below the other:
\* the first spec for two items that differ at its key, a later spec only
\* for items tied on all the specs before it.
C6_Priority ==
  pc = "called" /\ Len(configs) >= 2 =>
    \A x, y \in Range(array) :
      x # y /\ Differ(x, y) =>
        LET c == configs[FirstDiff(x, y)] IN
        /\ CompareAt(c, ValueAt(x, c), ValueAt(y, c)) < 0
        /\ CompareAt(c, ValueAt(y, c), ValueAt(x, c)) > 0
        => Before(result, x, y)

\* C7: a spec that yields 0 for a pair of different values (null against
\* undefined) leaves the decision to the next specs: the first spec after
\* it that does not judge the pair equal orders the pair.
C7_ZeroContinues ==
  pc = "called" =>
    \A x, y \in Range(array) : \A k \in 1..Len(configs) :
      /\ \A j \in 1..(k - 1) : TieAt(configs[j], x, y)
      /\ \E j \in 1..(k - 1) : ValueAt(x, configs[j]) # ValueAt(y, configs[j])
      /\ ~TieAt(configs[k], x, y)
      /\ CompareAt(configs[k], ValueAt(x, configs[k]), ValueAt(y, configs[k])) < 0
      => Before(result, x, y)

\* The spec with the other ascending.
Flip(config) ==
  [config EXCEPT !.hasAscending = TRUE, !.ascending = ~AscendingOf(config)]

\* One spec, without customOrder.
PlainCall == pc = "called" /\ Len(configs) = 1 /\ ~configs[1].hasCustomOrder

ComparatorTie(a, b) ==
  \/ IsNullish(a) /\ IsNullish(b)
  \/ /\ a.kind = "object" /\ b.kind = "object"
     /\ JSONstringify(a) = JSONstringify(b)

PlainAscendingCall == PlainCall /\ AscendingOf(configs[1])

\* C9: under one ascending spec without customOrder every item whose
\* value is null or absent is after every item whose value is present,
\* and the null/absent items are in their input order.
C9_NullishLast ==
  PlainAscendingCall =>
    LET c == configs[1] IN
    \A x, y \in Range(array) :
      /\ IsNullish(ValueAt(x, c)) /\ ~IsNullish(ValueAt(y, c)) => Before(result, y, x)
      /\ IsNullish(ValueAt(x, c)) /\ IsNullish(ValueAt(y, c)) =>
           Only(result, x, y) = Only(array, x, y)

\* Items with a missing nested property and with a null container were
\* put after one whose nested value is present, in their input order.
C9_Witness ==
  /\ pc = "called"
  /\ configs = <<ByUN>>
  /\ array = <<Obj(3), Obj(4), Obj(1)>>
  /\ result = <<Obj(1), Obj(3), Obj(4)>>

\* The Type Priority Ranking of the kinds of present values.
KindRank(v) ==
  CASE v.kind = "string" -> 1
    [] v.kind = "number" -> 2
    [] v.kind = "boolean" -> 3
    [] v.kind = "object" -> 4

\* C10: under one ascending spec without customOrder, of two items with
\* present values of different kinds the one whose kind is earlier in
\* string < number < boolean < record/sequence comes first.
C10_TypePriority ==
  PlainAscendingCall =>
    LET c == configs[1] IN
    \A x, y \in Range(array) :
      LET vx == ValueAt(x, c)
          vy == ValueAt(y, c)
      IN ~IsNullish(vx) /\ ~IsNullish(vy) /\ KindRank(vx) < KindRank(vy)
         => Before(result, x, y)

\* An array, a boolean and a number were put in the ranking's order.
C10_Witness ==
  /\ pc = "called"
  /\ configs = <<ByP>>
  /\ array = <<Obj(11), Obj(4), Obj(3)>>
  /\ result = <<Obj(3), Obj(4), Obj(11)>>

\* The values the specs of the call resolve from the items of the array:
\* the arguments the reorder engine has for the Value Comparator.
Compared ==
  {ValueAt(x, configs[k]) : x \in Range(array), k \in 1..Len(configs)}

\* C11: compareValues(a, b) is one of -1, 0, +1 for every pair of values,
\* of one kind or of two.
C11_ThreeValued ==
  \A a, b \in Compared : compareValues(a, b) \in {-1, 0, 1}

\* Same structure: the same value, or two records/sequences of one
\* serialization.
StructurallyEqual(a, b) ==
  \/ a = b
  \/ a.kind = "object" /\ b.kind = "object" /\ JSONstringify(a) = JSONstringify(b)

Sign(n) == IF n < 0 THEN -1 ELSE IF n > 0 THEN 1 ELSE 0

\* C12: compareValues(a, b) is 0 exactly when a and b are literally or
\* structurally equal or both null/absent; for every other pair the
\* results of compareValues(a, b) and compareValues(b, a) have opposite
\* signs.
C12_Consistent ==
  \A a, b \in Compared :
    /\ compareValues(a, b) = 0 <=>
         (StructurallyEqual(a, b) \/ (IsNullish(a) /\ IsNullish(b)))
    /\ compareValues(a, b) # 0 =>
         Sign(compareValues(a, b)) = -Sign(compareValues(b, a))

\* The segments of the dot-paths of the sort specifications.
SegmentsOf(path) == IF path = PathUN THEN <<KeyU, KeyN>> ELSE <<path>>

\* The container is a record or sequence that has the segment as a key.
HasSegment(v, seg) ==
  /\ v.kind = "object"
  /\ \E i \in 1..Len(Heap[v.ref].keys) : Heap[v.ref].keys[i] = seg

\* The value at a path, segment by segment: absent from the first
\* container that is null/absent or lacks the segment, else what the last
\* segment holds (null included).
RECURSIVE Walk(_, _)
Walk(v, segs) ==
  IF segs = <<>> THEN v
  ELSE IF IsNullish(v) \/ ~HasSegment(v, Head(segs)) THEN Undefined
  ELSE Walk(GetProp(v, Head(segs)), Tail(segs))

\* The dot-paths the specs of the caller use.
DotPaths == {KeyP, KeyQ, PathUN}

\* C13: resolving a dot-path on an item yields the value at the path when
\* every segment is there, absent when a container on the way is
\* null/absent or lacks the segment, and null when the last segment holds
\* null; and a call with one ascending spec puts an item whose resolved
\* value is the lower string or number before the other.
C13_Resolves ==
  /\ \A x \in Range(array) : \A path \in DotPaths :
       getNestedValue(x, path) = Walk(x, SegmentsOf(path))
  /\ PlainAscendingCall =>
       \A x, y \in Range(array) :
         LET vx == Walk(x, SegmentsOf(configs[1].key))
             vy == Walk(y, SegmentsOf(configs[1].key))
         IN /\ vx.kind = vy.kind /\ vx.kind \in {"string", "number"}
            /\ Less(vx, vy)
            => Before(result, x, y)

\* Items with u.n null, with u lacking n, with u null and with u.n 'b' were
\* resolved and the one with the string was put first.
C13_Witness ==
  /\ pc = "called"
  /\ configs = <<ByUN>>
  /\ array = <<Obj(18), Obj(3), Obj(1)>>
  /\ getNestedValue(Obj(18), PathUN) = Null
  /\ getNestedValue(Obj(3), PathUN) = Undefined
  /\ getNestedValue(Obj(4), PathUN) = Undefined
  /\ getNestedValue(Obj(1), PathUN) = Str(SB)
  /\ result[1] = Obj(1)

\* C14: a call whose items are no sequence, whose specs are no sequence or
\* whose spec has no key fails with an error and returns no order, whatever
\* the number of items.
C14_Validates ==
  pc = "called" /\ given # AsTyped => thrown # "none"

\* null or undefined.
IsAbsent(top) == top.kind # "array"

\* C15: isArrayEqual(null, null) and isArrayEqual(undefined, undefined)
\* are true; with exactly one argument null/undefined the answer is false
\* whatever the other argument and the options; and isArrayEqual(x, x)
\* with one reference on both sides is true for every x and all options.
C15_NullIdentity ==
  /\ pc = "compared" /\ IsAbsent(arr1) /\ arr1 = arr2 => answer = TRUE
  /\ pc = "compared" /\ IsAbsent(arr1) /\ ~IsAbsent(arr2) => answer = FALSE
  /\ pc = "compared" /\ ~IsAbsent(arr1) /\ IsAbsent(arr2) => answer = FALSE
  /\ pc = "same" => answer = TRUE

\* null was compared with an array of elements.
C15_Witness ==
  /\ pc = "compared"
  /\ arr1 = TopNull
  /\ arr2.kind = "array"
  /\ Len(arr2.elems) = MaxItems
  /\ answer = FALSE

\* The value is a primitive.
IsPrimitive(v) == v.kind # "object"

\* C16: for primitives p and q, isArrayEqual([{value:p}], [{value:q}],
\* {strict}) is p === q when strict is true and p == q when it is false.
C16_PrimitiveStrictness ==
  pc = "compared" /\ ~IsAbsent(arr1) /\ ~IsAbsent(arr2)
  /\ Len(arr1.elems) = 1 /\ Len(arr2.elems) = 1 =>
    LET p == GetProp(arr1.elems[1], KeyValue)
        q == GetProp(arr2.elems[1], KeyValue)
    IN IsPrimitive(p) /\ IsPrimitive(q) =>
         answer = IF StrictOf(options) THEN p = q ELSE LooseEq(p, q)

\* The one-to-one pairings of n places.
Pairings(n) == {f \in [1..n -> 1..n] : \A i, j \in 1..n : i # j => f[i] # f[j]}

\* Every element of the left sequence has its own structurally equal
\* partner in the right one.
CanPair(items1, items2, path) ==
  \E f \in Pairings(Len(items1)) :
    \A i \in 1..Len(items1) : isEqual(items1[i], items2[f[i]], path, options)

\* The elements are equal place by place.
SameAtIndex(items1, items2, nested, path) ==
  \A i \in 1..Len(items1) :
    isEqual(items1[i], items2[i],
            IF nested THEN Append(path, NumToStr(i - 1)) ELSE path, options)

MultisetOrIndex(items1, items2, nested, path) ==
  IF IgnoreOrderOf(options) THEN CanPair(items1, items2, path)
  ELSE SameAtIndex(items1, items2, nested, path)

\* The nested sequences of the elements: what they hold under 'data'.
HasData(x) == IsArray(GetProp(x, KeyData))

\* C17: two sequences of one length, at the top or nested, are equal with
\* ignoreOrder=true exactly when the elements of the left one can be paired
\* one-to-one with equal elements of the right one, and with
\* ignoreOrder=false exactly when they are equal index by index.
C17_Multiset ==
  pc = "compared" /\ ~IsAbsent(arr1) /\ ~IsAbsent(arr2) =>
    /\ Len(arr1.elems) = Len(arr2.elems) =>
         answer = MultisetOrIndex(arr1.elems, arr2.elems, FALSE, <<>>)
    /\ \A x \in Range(arr1.elems), y \in Range(arr2.elems) :
         HasData(x) /\ HasData(y) =>
           isEqual(GetProp(x, KeyData), GetProp(y, KeyData), <<KeyData>>, options)
             = MultisetOrIndex(Elems(GetProp(x, KeyData)), Elems(GetProp(y, KeyData)),
                               TRUE, <<KeyData>>)

\* A record of the heap, and its keys.
IsRecord(v) == v.kind = "object" /\ ~Heap[v.ref].isArray

KeysOf(v) == Range(Heap[v.ref].keys)

\* The dot-path of a key under the segments from the root item.
DotPath(segs, key) ==
  IF segs = <<>> THEN key ELSE JoinDots(segs) \o <<46>> \o key

\* The keys whose dot-path from the root item is not in ignoreKeys.
Surviving(v, segs) ==
  {key \in KeysOf(v) : ~Includes(IgnoreKeysOf(options), DotPath(segs, key))}

\* Equal but for the keys whose dot-path from the root item is listed; the
\* path of a key in an element of a sequence has the index of the element.
RECURSIVE EqualBut(_, _, _)
EqualBut(v1, v2, segs) ==
  IF IsRecord(v1) /\ IsRecord(v2)
  THEN /\ Surviving(v1, segs) = Surviving(v2, segs)
       /\ \A key \in Surviving(v1, segs) :
            EqualBut(GetProp(v1, key), GetProp(v2, key), Append(segs, key))
  ELSE IF IsArray(v1) /\ IsArray(v2)
  THEN /\ Len(Elems(v1)) = Len(Elems(v2))
       /\ \E f \in Pairings(Len(Elems(v1))) :
            /\ ~IgnoreOrderOf(options) => \A i \in 1..Len(Elems(v1)) : f[i] = i
            /\ \A i \in 1..Len(Elems(v1)) :
                 EqualBut(Elems(v1)[i], Elems(v2)[f[i]], Append(segs, NumToStr(f[i] - 1)))
  ELSE v1 = v2

\* A comparison of two arrays of one length has returned.
ComparedArrays ==
  /\ pc = "compared"
  /\ ~IsAbsent(arr1)
  /\ ~IsAbsent(arr2)
  /\ Len(arr1.elems) = Len(arr2.elems)

\* C18: a key is left out of the comparison exactly when its dot-path from
\* the root item is in ignoreKeys, at every depth: two arrays are equal
\* exactly when their items, paired by index (or one-to-one in any order
\* with ignoreOrder), are equal but for the keys at the listed paths.
C18_ExactPath ==
  ComparedArrays =>
    answer = \E f \in Pairings(Len(arr1.elems)) :
               /\ ~IgnoreOrderOf(options) => \A i \in 1..Len(arr1.elems) : f[i] = i
               /\ \A i \in 1..Len(arr1.elems) :
                    EqualBut(arr1.elems[i], arr2.elems[f[i]], <<>>)

\* C19: a call of isArrayEqual leaves both arguments with the elements
\* they had, in their places, and the unordered matching of two nested
\* sequences leaves the right one, whose copy it consumes, as it was.
C19_InputsUntouched ==
  [][pc = "build" /\ pc' # "build" =>
       /\ arr1' = arr1
       /\ arr2' = arr2
       /\ \A x \in Range(arr1.elems), y \in Range(arr2.elems) :
            HasData(x) /\ HasData(y) =>
              Unordered(Elems(GetProp(x, KeyData)), Elems(GetProp(y, KeyData)),
                        <<KeyData>>, options).source
                = Elems(GetProp(y, KeyData))]_vars

\* Arrays with nested sequences were matched in another order, at the top
\* and inside.
C19_Witness ==
  /\ pc = "compared"
  /\ IgnoreOrderOf(options)
  /\ arr1.elems = <<Obj(30), Obj(21)>>
  /\ arr2.elems = <<Obj(36), Obj(32)>>
  /\ answer = TRUE

\* The keys of a record that ignoreKeys does not take out, at the top of
\* an item.
SurvivingKeys(v) ==
  {key \in KeysOf(v) : ~Includes(IgnoreKeysOf(options), key)}

\* C20: two records are equal exactly when, without the keys in
\* ignoreKeys, they have the same set of own keys and the values under
\* each of these keys are equal; a key only one of them has, even with the
\* value undefined, makes them unequal.
C20_Records ==
  ComparedArrays =>
    answer = \A i \in 1..Len(arr1.elems) :
               /\ SurvivingKeys(arr1.elems[i]) = SurvivingKeys(arr2.elems[i])
               /\ \A key \in SurvivingKeys(arr1.elems[i]) :
                    isEqual(GetProp(arr1.elems[i], key), GetProp(arr2.elems[i], key),
                            <<key>>, options)

\* A record was found equal to one with the key lastLogin more, which
\* ignoreKeys takes out, and unequal to one with a key c holding undefined.
C20_Witness ==
  /\ pc = "compared"
  /\ IgnoreKeysOf(options) = <<KeyLastLogin>>
  /\ arr1.elems = <<Obj(45), Obj(45)>>
  /\ arr2.elems = <<Obj(41), Obj(46)>>
  /\ answer = FALSE
  /\ isEqual(Obj(45), Obj(41), <<>>, options)
  /\ ~isEqual(Obj(45), Obj(46), <<>>, options)

\* How many places of a sequence hold the item.
CountIn(s, x) == Cardinality({i \in 1..Len(s) : s[i] = x})

\* One sequence holds the items of the other, each as many times.
IsPermutation(s, t) ==
  /\ Len(s) = Len(t)
  /\ \A x \in Range(s) \cup Range(t) : CountIn(s, x) = CountIn(t, x)

\* C21: what reorderArray returns is a permutation of what it is given:
\* the same length and the same item references, each as many times, for
\* the first call and for the call on the sequence returned.
C21_Permutation ==
  /\ pc = "called" => IsPermutation(result, array)
  /\ pc = "recalled" => IsPermutation(result2, result) /\ IsPermutation(result2, array)

\* Three items came back in another order, and in a third order from the
\* second call.
C21_Witness ==
  /\ pc = "recalled"
  /\ Len(array) = MaxLen
  /\ result # array
  /\ result2 # result

Unordering(opt) == [opt EXCEPT !.hasIgnoreOrder = TRUE, !.ignoreOrder = TRUE]

\* C23: arrays that isArrayEqual finds equal with ignoreOrder false it
\* finds equal with ignoreOrder true and the same strict and ignoreKeys,
\* also when ignoreKeys names keys in the elements of nested sequences.
C23_RelaxingOrder ==
  pc = "compared" /\ ~IgnoreOrderOf(options) /\ answer = TRUE =>
    isArrayEqual(arr1, arr2, Unordering(options)).ret = TRUE

\* The spec keys hold no '.' (46), and the items have a string, a number or
\* a boolean under each.
NoDot(key) == \A i \in 1..Len(key) : key[i] # 46

FlatInput(items, cfgs) ==
  \A c \in 1..Len(cfgs) :
    /\ NoDot(cfgs[c].key)
    /\ \A i \in 1..Len(items) :
         GetProp(items[i], cfgs[c].key).kind \in {"string", "number", "boolean"}

\* C24: on an input whose spec keys hold no '.' and whose values under
\* those keys are strings, numbers or booleans, the flat-key reorderArray
\* returns the sequence the nested-key reorderArray returns, whatever the
\* customOrder, direction and ascending of the specs.
C24_SameSequence ==
  /\ pc = "called" /\ FlatInput(array, configs) =>
       reorderArrayFlat(array, configs).ret = result
  /\ pc = "recalled" /\ FlatInput(result, configs) =>
       reorderArrayFlat(result, configs).ret = result2

\* A call on three items of three types under a spec with a customOrder and
\* ascending false, which the two implementations reorder alike.
C24_Witness ==
  /\ pc = "called"
  /\ Len(array) = MaxLen
  /\ FlatInput(array, configs)
  /\ \E c \in 1..Len(configs) : configs[c].hasCustomOrder /\ ~AscendingOf(configs[c])
  /\ {GetProp(array[i], KeyP).kind : i \in 1..Len(array)} = {"string", "number", "boolean"}
  /\ result # array
  /\ reorderArrayFlat(array, configs).ret = result

====
